---- MODULE Spec2Model ----
(***************************************************************************)
(* A model of lightlab/util/io.py: the ProgressWriter sweep counter and    *)
(* its reports, the file persistence helpers (pickle+gzip, mat, JSON) with *)
(* their file name conventions, and the attribute filtering rules of       *)
(* JSONpickleable.                                                         *)
(***************************************************************************)
EXTENDS Integers, Sequences, FiniteSets, TLC

VARIABLES
    pw,          \* the ProgressWriter objects by name (instance attributes), or NoObject
    htmlFile,    \* content of monitorDir/sweep.html, shared by all writers
    stdoutLast,  \* the line the console ends with, and whether it is still open
    emitted,     \* per writer, how many reports of each kind it has emitted so far
    calls,       \* per writer, the number of update() calls that returned normally
    raised,      \* the exception raised by the last call, or NoException
    fs,          \* the files under fileDir / the working directory: path -> content
    fileDirExists, \* whether the directory fileDir exists
    last,        \* the last persistence call: its name, arguments and result
    classes,     \* the notPickled declaration of each user class
    obj,         \* a live JSONpickleable instance: its class and its __dict__
    restored     \* the instance produced by the last copy() / load()

vars == <<pw, htmlFile, stdoutLast, emitted, calls, raised,
          fs, fileDirExists, last, classes, obj, restored>>

pwVars == <<pw, htmlFile, stdoutLast, emitted, calls>>
ioVars == <<fs, fileDirExists, last, classes, obj, restored>>

NoObject == [kind |-> "none"]
NoException == "none"

(***************************************************************************)
(* Bounds of the model                                                     *)
(***************************************************************************)
MaxSteps == 3
MaxCalls == 6
MaxOpen == 2

(***************************************************************************)
(* The console.  stdoutLast is the line the console ends with: the pieces  *)
(* written on it, and whether it is still open (no line break yet).        *)
(***************************************************************************)

\* nothing printed yet
NoLine == [open |-> FALSE, line |-> <<>>]

\* print(piece): the piece lands on the line left open, if any, and ends it
printed(console, piece) ==
    [open |-> FALSE,
     line |-> (IF console.open THEN console.line ELSE <<>>) \o <<piece>>]

\* print(piece, end=''): as print, but the line stays open
printedOpen(console, piece) ==
    [open |-> TRUE,
     line |-> (IF console.open THEN console.line ELSE <<>>) \o <<piece>>]

RECURSIVE joined(_)
\* msg = ''; for a in args: msg += str(a)
joined(args) == IF args = <<>> THEN <<>> ELSE Head(args) \o joined(Tail(args))

\* print(msg + "... ", end='') in printWait
waitLine(args) ==
    [kind |-> "printWait", body |-> <<>>, text |-> joined(args) \o <<".", ".", ".", " ">>]

\* sys.stdout.write('\b' * 1000) in printProgress, as one piece of text
BackspaceRun == "\\b * 1000"

\* what printProgress writes before the line break: the backspaces, then msg
progressLine(args) ==
    [kind |-> "printProgress", body |-> <<>>, text |-> <<BackspaceRun>> \o joined(args)]

\* print('Full path to figure is', rp) in saveFigure; name is the file name of rp
figureLine(name) == [kind |-> "saveFigure", body |-> <<>>, text |-> name]

\* a call that touches no file, as remembered in last
Called(op, arg, exception) ==
    [op |-> op, filename |-> <<>>, arg |-> arg, result |-> "None", raised |-> exception]

(***************************************************************************)
(* ProgressWriter.  Every writer reports to the same console and to the    *)
(* same file, progFileDefault = monitorDir/sweep.html.                     *)
(***************************************************************************)

\* the ProgressWriter objects of a session, by the name given to each
Writers == {"pw1", "pw2"}
FirstWriter == "pw1"

RECURSIVE prod(_)
\* np.prod(self.size)
prod(s) == IF s = <<>> THEN 1 ELSE Head(s) * prod(Tail(s))

\* swpSize arguments: a scalar, or a tuple of sizes; every dimension >= 1
SwpSizes ==
    {[scalar |-> TRUE, value |-> 1], [scalar |-> TRUE, value |-> 3],
     [scalar |-> FALSE, value |-> <<2>>], [scalar |-> FALSE, value |-> <<1, 1>>],
     [scalar |-> FALSE, value |-> <<2, 3>>], [scalar |-> FALSE, value |-> <<3, 2>>],
     [scalar |-> FALSE, value |-> <<2, 1, 2>>]}

\* the arguments of a writer made while another one is in use: a sweep of
\* two points, served and printed
LaterSizes == {[scalar |-> FALSE, value |-> <<2>>]}
LaterFlags == {<<TRUE, TRUE>>}

\* if np.isscalar(swpSize): swpSize = [swpSize]
asSizeArray(swpSize) == IF swpSize.scalar THEN <<swpSize.value>> ELSE swpSize.value

\* The text of one progress report: "p+1 of size" (html) or "p+1/size" (console)
\* for each dimension, in order
progressBody(self) ==
    [i \in 1..Len(self.size) |-> <<self.currentPnt[i] + 1, self.size[i]>>]

\* __writeHtml: the progress page under the writer's name, written only when
\* serving
writeHtml(self, file) ==
    IF self.serving
    THEN [kind |-> "progress", name |-> self.name, body |-> progressBody(self),
          ratio |-> <<self.ofTotal + 1, self.totalSize>>, autorefresh |-> TRUE]
    ELSE file

\* __writeHtmlEnd: the completion page
writeHtmlEnd(self) ==
    [kind |-> "completed", name |-> self.name, body |-> <<>>, ratio |-> <<>>,
     autorefresh |-> FALSE]

\* __writeStdio: print(prntStr), the position in each dimension
writeStdio(self) == [kind |-> "progress", body |-> progressBody(self), text |-> <<>>]

\* __writeStdioEnd: print('Sweep completed!')
writeStdioEnd == [kind |-> "completed", body |-> <<>>, text |-> <<>>]

\* print('See sweep progress online at') and print(self.getUrl())
SeeLine == [kind |-> "see", body |-> <<>>, text |-> <<>>]
UrlLine == [kind |-> "url", body |-> <<>>, text |-> <<>>]

\* print(self.name)
nameLine(self) == [kind |-> "name", body |-> <<>>, text |-> <<self.name>>]

RECURSIVE dimsText(_)
\* prntStr += 'Dim-' + str(iterDim) + '...' for iterDim = 0 .. n-1
dimsText(n) ==
    IF n = 0 THEN <<>> ELSE dimsText(n - 1) \o <<"Dim-", ToString(n - 1), "...">>

\* print(prntStr) in __init__
dimsLine(self) == [kind |-> "dims", body |-> <<>>, text |-> dimsText(Len(self.size))]

AbsentFile ==
    [kind |-> "absent", name |-> "", body |-> <<>>, ratio |-> <<>>, autorefresh |-> FALSE]
\* fp.touch() on a missing file leaves an empty file; an existing one keeps its content
StaleFile ==
    [kind |-> "stale", name |-> "", body |-> <<>>, ratio |-> <<>>, autorefresh |-> FALSE]

\* the report counts of a writer that has not reported
NoReports == [htmlProgress |-> 0, htmlEnd |-> 0, stdioProgress |-> 0, stdioEnd |-> 0]

\* ProgressWriter.__init__: the attributes after construction
ProgressWriter(name, swpSize, runServer, stdoutPrint) ==
    LET size == asSizeArray(swpSize) IN
    [kind |-> "ProgressWriter",
     name |-> name,
     size |-> size,
     currentPnt |-> [i \in 1..Len(size) |-> 0],
     totalSize |-> prod(size),
     ofTotal |-> 0,
     completed |-> FALSE,
     serving |-> runServer,
     printing |-> stdoutPrint]

\* the output of __init__ on the given file and console: when serving, two
\* lines and the first page; when printing, the name, the dimensions and the
\* first progress line
initReports(self, file, console) ==
    LET served == IF self.serving
                  THEN printed(printed(console, SeeLine), UrlLine)
                  ELSE console
    IN
    [html |-> IF self.serving THEN writeHtml(self, file) ELSE file,
     line |-> IF self.printing
              THEN printed(printed(printed(served, nameLine(self)), dimsLine(self)),
                           writeStdio(self))
              ELSE served,
     emitted |-> [htmlProgress |-> IF self.serving THEN 1 ELSE 0,
                  htmlEnd |-> 0,
                  stdioProgress |-> IF self.printing THEN 1 ELSE 0,
                  stdioEnd |-> 0]]

RECURSIVE stepPnt_firstFastest(_, _, _)
\* stepPnt counting the first dimension fastest (index i instead of -i-1)
stepPnt_firstFastest(pnt, size, i) ==
    IF i >= Len(size) THEN pnt
    ELSE LET k == i + 1 IN
         IF pnt[k] < size[k] - 1
         THEN [pnt EXCEPT ![k] = @ + 1]
         ELSE stepPnt_firstFastest([pnt EXCEPT ![k] = 0], size, i + 1)

RECURSIVE stepPnt(_, _, _)
\* the loop of __updateOneInternal over i = 0 .. len(size)-1, on index -i-1
stepPnt(pnt, size, i) ==
    IF i >= Len(size) THEN pnt
    ELSE LET k == Len(size) - i IN
         IF pnt[k] < size[k] - 1
         THEN [pnt EXCEPT ![k] = @ + 1]
         ELSE stepPnt([pnt EXCEPT ![k] = 0], size, i + 1)

\* updateOneInternal testing completion before the increment of ofTotal
updateOneInternal_offByOne(self) ==
    [self EXCEPT !.currentPnt = stepPnt(self.currentPnt, self.size, 0),
                 !.ofTotal = self.ofTotal + 1,
                 !.completed = IF self.ofTotal = self.totalSize THEN TRUE ELSE @]

\* __updateOneInternal
updateOneInternal(self) ==
    LET nxt == self.ofTotal + 1 IN
    [self EXCEPT !.currentPnt = stepPnt(self.currentPnt, self.size, 0),
                 !.ofTotal = nxt,
                 !.completed = IF nxt = self.totalSize THEN TRUE ELSE @]

RECURSIVE repeatUpdate(_, _)
\* for i in range(steps): self.__updateOneInternal()
repeatUpdate(self, steps) ==
    IF steps <= 0 THEN self ELSE repeatUpdate(updateOneInternal(self), steps - 1)

\* updateGuard that lets a completed sweep go on
updateGuard_missing(self) == FALSE

\* if self.completed: raise Exception(...)
updateGuard(self) == self.completed

\* updateReports writing the progress report whether or not the sweep completed
updateReports_alwaysProgress(self) ==
    [html |-> IF self.serving THEN writeHtml(self, htmlFile) ELSE htmlFile,
     line |-> IF self.printing THEN printed(stdoutLast, writeStdio(self)) ELSE stdoutLast,
     emitted |-> [emitted[self.name] EXCEPT
                    !.htmlProgress = IF self.serving THEN @ + 1 ELSE @,
                    !.stdioProgress = IF self.printing THEN @ + 1 ELSE @]]

\* the reports at the end of update(): progress while not completed, else the
\* completion report; each only if serving / printing.  The page replaces
\* the shared file, the line is printed on the console as it stands
updateReports(self) ==
    IF ~self.completed
    THEN [html |-> IF self.serving THEN writeHtml(self, htmlFile) ELSE htmlFile,
          line |-> IF self.printing THEN printed(stdoutLast, writeStdio(self))
                   ELSE stdoutLast,
          emitted |-> [emitted[self.name] EXCEPT
                         !.htmlProgress = IF self.serving THEN @ + 1 ELSE @,
                         !.stdioProgress = IF self.printing THEN @ + 1 ELSE @]]
    ELSE [html |-> IF self.serving THEN writeHtmlEnd(self) ELSE htmlFile,
          line |-> IF self.printing THEN printed(stdoutLast, writeStdioEnd)
                   ELSE stdoutLast,
          emitted |-> [emitted[self.name] EXCEPT
                         !.htmlEnd = IF self.serving THEN @ + 1 ELSE @,
                         !.stdioEnd = IF self.printing THEN @ + 1 ELSE @]]

\* ProgressWriter(name, swpSize, runServer, stdoutPrint): one more writer
init(name, swpSize, runServer, stdoutPrint) ==
    /\ pw[name] = NoObject
    /\ LET self == ProgressWriter(name, swpSize, runServer, stdoutPrint)
           out == initReports(self, htmlFile, stdoutLast) IN
       /\ pw' = [pw EXCEPT ![name] = self]
       /\ htmlFile' = out.html
       /\ stdoutLast' = out.line
       /\ emitted' = [emitted EXCEPT ![name] = out.emitted]
    /\ raised' = NoException
    /\ last' = Called("ProgressWriter", name, NoException)
    /\ UNCHANGED <<calls, fs, fileDirExists, classes, obj, restored>>

\* ProgressWriter.update(steps) of the writer called name, the whole call
\* with its reports
update(name, steps) ==
    /\ pw[name].kind = "ProgressWriter"
    /\ IF updateGuard(pw[name])
       THEN /\ raised' = "Exception"
            /\ last' = Called("update", name, "Exception")
            /\ UNCHANGED pwVars
       ELSE LET self == repeatUpdate(pw[name], steps)
                out == updateReports(self) IN
            /\ calls[name] < MaxCalls
            /\ pw' = [pw EXCEPT ![name] = self]
            /\ calls' = [calls EXCEPT ![name] = @ + 1]
            /\ raised' = NoException
            /\ htmlFile' = out.html
            /\ stdoutLast' = out.line
            /\ emitted' = [emitted EXCEPT ![name] = out.emitted]
            /\ last' = Called("update", name, NoException)
    /\ UNCHANGED <<fs, fileDirExists, classes, obj, restored>>

\* printWait(*args); at most MaxOpen pieces are left on an open line
printWait(args) ==
    /\ stdoutLast.open => Len(stdoutLast.line) < MaxOpen
    /\ stdoutLast' = printedOpen(stdoutLast, waitLine(args))
    /\ raised' = NoException
    /\ last' = Called("printWait", args, NoException)
    /\ UNCHANGED <<pw, htmlFile, emitted, calls, fs, fileDirExists, classes, obj, restored>>

\* printProgress(*args)
printProgress(args) ==
    /\ stdoutLast' = printed(stdoutLast, progressLine(args))
    /\ raised' = NoException
    /\ last' = Called("printProgress", args, NoException)
    /\ UNCHANGED <<pw, htmlFile, emitted, calls, fs, fileDirExists, classes, obj, restored>>

\* the strings given to printWait / printProgress
PrintArgs == {<<<<"x">>, <<"1">>>>}

NoCall == [op |-> "none"]

\* no ProgressWriter has been made
NoWriters == [name \in Writers |-> NoObject]

(***************************************************************************)
(* File names and the file system.  A string is a sequence of characters,  *)
(* a path is <<directory, file name>>.                                     *)
(***************************************************************************)

\* s[-n:]: the last n characters of s, all of s when it is shorter
lastChars(s, n) == IF Len(s) <= n THEN s ELSE SubSeq(s, Len(s) - n + 1, Len(s))

\* s[:-n]: s without its last n characters
dropLast(s, n) == IF Len(s) <= n THEN <<>> ELSE SubSeq(s, 1, Len(s) - n)

\* str.endswith
endswith(s, suffix) ==
    /\ Len(s) >= Len(suffix)
    /\ SubSeq(s, Len(s) - Len(suffix) + 1, Len(s)) = suffix

\* str.startswith
startswith(s, prefix) ==
    /\ Len(s) >= Len(prefix)
    /\ SubSeq(s, 1, Len(prefix)) = prefix

dotGz == <<".", "g", "z">>
dotMat == <<".", "m", "a", "t">>
dotJson == <<".", "j", "s", "o", "n">>
dotPdf == <<".", "p", "d", "f">>

\* _gzfilename that always appends the extension
gzfilename_alwaysAppend(filename) == filename \o dotGz

\* _gzfilename: ensures filename ends with .gz
gzfilename(filename) ==
    IF endswith(filename, dotGz) THEN filename ELSE filename \o dotGz

\* if filename[-4:] != '.mat': filename += '.mat'
matfilename(filename) ==
    IF lastChars(filename, 4) # dotMat THEN filename \o dotMat ELSE filename

\* if filename[-5:] != '.json': filename += '.json'
jsonfilename(filename) ==
    IF lastChars(filename, 5) # dotJson THEN filename \o dotJson ELSE filename

\* if filename[-4:] != '.pdf': filename += '.pdf'
pdffilename(filename) ==
    IF lastChars(filename, 4) # dotPdf THEN filename \o dotPdf ELSE filename

\* p = fileDir / filename
inFileDir(filename) == <<"fileDir", filename>>

\* open(filename, ...): relative to the working directory
inCwd(filename) == <<"cwd", filename>>

\* p.exists()
exists(fsys, p) == p \in DOMAIN fsys

\* the file system after `with open(p, 'w') as f: f.write(content)`
written(fsys, p, content) == (p :> content) @@ fsys

\* what a call leaves behind: the file system, whether fileDir exists, the
\* value returned and the exception raised
Outcome(fsys, dirExists, result, exception) ==
    [fs |-> fsys, fileDirExists |-> dirExists, result |-> result, raised |-> exception]

NoResult == "None"

\* _makeFileExist(filename) followed by the caller's write of content to rp:
\* os.makedirs(fileDir, exist_ok=True), p.touch(), then the file is written
makeFileExistAndWrite(filename, content) ==
    Outcome(written(fs, inFileDir(filename), content), TRUE, NoResult, NoException)

(***************************************************************************)
(* Pickle + gzip                                                           *)
(***************************************************************************)

\* pickle.dump(dataTuple, fx) into rp.open('wb')
pickleDump(dataTuple) == [format |-> "pickle", pickled |-> dataTuple]

\* savePickle(filename, dataTuple): the name is used as given
savePickleCall(filename, dataTuple) ==
    makeFileExistAndWrite(filename, pickleDump(dataTuple))

\* loadPickle(filename); rp.open raises FileNotFoundError on a missing file,
\* pickle.load raises UnpicklingError on a file that holds no pickle
loadPickleCall(filename) ==
    LET p == inFileDir(filename) IN
    IF ~exists(fs, p)
    THEN Outcome(fs, fileDirExists, NoResult, "FileNotFoundError")
    ELSE IF fs[p].format # "pickle"
    THEN Outcome(fs, fileDirExists, NoResult, "UnpicklingError")
    ELSE Outcome(fs, fileDirExists, fs[p].pickled, NoException)

\* pickle.dump(dataTuple, fx) through gzip.open(rp, 'wb')
pickleGzip(dataTuple) == [format |-> "pickle.gz", pickled |-> dataTuple]

\* pickle.load(fx) through gzip.open(rp, 'rb')
unpickleGzip(content) == content.pickled

\* savePickleGzip(filename, dataTuple)
savePickleGzipCall(filename, dataTuple) ==
    makeFileExistAndWrite(gzfilename(filename), pickleGzip(dataTuple))

\* loadPickleGzip(filename); gzip.open raises FileNotFoundError on a missing
\* file, and reading raises BadGzipFile on a file that is not gzipped
loadPickleGzipCall(filename) ==
    LET p == inFileDir(gzfilename(filename)) IN
    IF ~exists(fs, p)
    THEN Outcome(fs, fileDirExists, NoResult, "FileNotFoundError")
    ELSE IF fs[p].format # "pickle.gz"
    THEN Outcome(fs, fileDirExists, NoResult, "BadGzipFile")
    ELSE Outcome(fs, fileDirExists, unpickleGzip(fs[p]), NoException)

\* saveFigure(filename, figHandle): PdfPages writes the figure to rp
saveFigureCall(filename, figHandle) ==
    makeFileExistAndWrite(pdffilename(filename), [format |-> "pdf", pickled |-> figHandle])

(***************************************************************************)
(* Mat files.  A matrix is its shape and its elements in row-major order   *)
(* (the order of numpy); a dataDict maps names to matrices.  A .mat file   *)
(* holds, for each variable, its dimensions and its elements in            *)
(* column-major order (the order of Matlab).                               *)
(***************************************************************************)

\* the dimensions sio.savemat gives a variable (oned_as='row'): a scalar is
\* 1x1, an empty one-dimensional array is 0x0, any other one-dimensional
\* array is a row, and the rest keep their shape
atLeast2d(shape) ==
    IF Len(shape) = 0 THEN <<1, 1>>
    ELSE IF Len(shape) = 1 THEN (IF shape[1] = 0 THEN <<0, 0>> ELSE <<1, shape[1]>>)
    ELSE shape

RECURSIVE unravel(_, _)
\* the index, in each dimension, of the element at position k (from 0) in
\* row-major order
unravel(k, dims) ==
    IF dims = <<>> THEN <<>>
    ELSE LET rest == prod(Tail(dims)) IN
         <<k \div rest>> \o unravel(k % rest, Tail(dims))

RECURSIVE ravelColumns(_, _)
\* the position (from 0) of an index in column-major order: the first
\* dimension counts fastest
ravelColumns(index, dims) ==
    IF index = <<>> THEN 0
    ELSE Head(index) + Head(dims) * ravelColumns(Tail(index), Tail(dims))

\* where the element at row-major position k (from 1) is stored in the file
columnPosition(k, dims) == ravelColumns(unravel(k - 1, dims), dims) + 1

\* the elements as written to the file
toColumns(data, dims) ==
    [j \in 1..Len(data) |->
        data[CHOOSE k \in 1..Len(data) : columnPosition(k, dims) = j]]

\* the elements as read back into an array
fromColumns(column, dims) ==
    [k \in 1..Len(column) |-> column[columnPosition(k, dims)]]

underscore == <<"_">>

\* sio.savemat(str(rp), dataDict): the content of the .mat file; a name that
\* begins with an underscore is not stored
savemat(dataDict) ==
    [format |-> "mat",
     variables |->
        [k \in {name \in DOMAIN dataDict : ~startswith(name, underscore)} |->
            LET dims == atLeast2d(dataDict[k].shape) IN
            [dims |-> dims, column |-> toColumns(dataDict[k].data, dims)]]]

matHeader == <<"_", "_", "h", "e", "a", "d", "e", "r", "_", "_">>
matVersion == <<"_", "_", "v", "e", "r", "s", "i", "o", "n", "_", "_">>
matGlobals == <<"_", "_", "g", "l", "o", "b", "a", "l", "s", "_", "_">>

MatHeader(name) == [shape |-> <<>>, data |-> <<name>>]
MatGlobals == [shape |-> <<0>>, data |-> <<>>]

\* sio.loadmat(str(rp)): the stored matrices and the three header entries
loadmat(content) ==
    [k \in DOMAIN content.variables \cup {matHeader, matVersion, matGlobals} |->
        IF k \in DOMAIN content.variables
        THEN [shape |-> content.variables[k].dims,
              data |-> fromColumns(content.variables[k].column, content.variables[k].dims)]
        ELSE IF k = matGlobals THEN MatGlobals
        ELSE MatHeader(k)]

\* np.squeeze that leaves the array as it is
squeeze_identity(m) == m

\* np.squeeze(v): drops the dimensions of size one
squeeze(m) ==
    [shape |-> SelectSeq(m.shape, LAMBDA d : d # 1), data |-> m.data]

\* saveMat(filename, dataDict)
saveMatCall(filename, dataDict) ==
    makeFileExistAndWrite(matfilename(filename), savemat(dataDict))

\* loadMat that makes the file exist before looking for it
loadMatCall_makesFile(filename) ==
    LET p == inFileDir(matfilename(filename)) IN
    IF exists(fs, p) /\ fs[p].format # "mat"
    THEN Outcome(fs, fileDirExists, NoResult, "Exception")
    ELSE IF exists(fs, p)
    THEN Outcome(fs, fileDirExists,
                 LET data == loadmat(fs[p]) IN [k \in DOMAIN data |-> squeeze(data[k])],
                 NoException)
    ELSE Outcome(written(fs, p, savemat(<<>>)), TRUE, NoResult, "FileNotFoundError")

\* loadMat(filename); sio.loadmat fails on a file that is not a mat file (the
\* exception it raises depends on the bytes it finds)
loadMatCall(filename) ==
    LET p == inFileDir(matfilename(filename)) IN
    IF ~exists(fs, p)
    THEN Outcome(fs, fileDirExists, NoResult, "FileNotFoundError")
    ELSE IF fs[p].format # "mat"
    THEN Outcome(fs, fileDirExists, NoResult, "Exception")
    ELSE LET data == loadmat(fs[p]) IN
         Outcome(fs, fileDirExists, [k \in DOMAIN data |-> squeeze(data[k])], NoException)


(***************************************************************************)
(* JSONpickleable.  Two user classes, A(JSONpickleable) and B(A); each may *)
(* declare its own notPickled.  An object is its class and its __dict__,   *)
(* a function from attribute names to values.                              *)
(***************************************************************************)

\* type(self).mro()
mro(cls) ==
    IF cls = "B" THEN <<"B", "A", "JSONpickleable", "Hashable", "object">>
    ELSE IF cls = "A" THEN <<"A", "JSONpickleable", "Hashable", "object">>
    ELSE IF cls = "JSONpickleable" THEN <<"JSONpickleable", "Hashable", "object">>
    ELSE IF cls = "Hashable" THEN <<"Hashable", "object">>
    ELSE <<"object">>

\* the class attribute notPickled as declared in the body of cls, if it is
declared(cls) ==
    IF cls \in DOMAIN classes THEN classes[cls]
    ELSE IF cls = "JSONpickleable" THEN [defines |-> TRUE, names |-> {}]
    ELSE [defines |-> FALSE, names |-> {}]

RECURSIVE lookupNotPickled(_)
\* attribute lookup along the MRO: the first class that declares notPickled;
\* AttributeError (defines = FALSE) when none does
lookupNotPickled(classSeq) ==
    IF classSeq = <<>> THEN [defines |-> FALSE, names |-> {}]
    ELSE IF declared(Head(classSeq)).defines THEN declared(Head(classSeq))
    ELSE lookupNotPickled(Tail(classSeq))

\* cls.notPickled / self.notPickled
notPickled(cls) == lookupNotPickled(mro(cls)).names

\* the union built at the top of __getstate__: self.notPickled and
\* base.notPickled of every base of the MRO that has one
allNotPickled(cls) ==
    notPickled(cls) \cup
    UNION {notPickled(mro(cls)[i]) : i \in 1..Len(mro(cls))}

\* val.__class__.mro() by class names
valueMro(val) ==
    IF val = "VISAObject" THEN <<"VISAObject", "object">>
    ELSE IF val = "Keithley" THEN <<"Keithley", "VISAObject", "object">>
    ELSE IF val = "HardwareReference" THEN <<"HardwareReference", "object">>
    ELSE IF val = "lambda" THEN <<"function", "object">>
    ELSE IF val = "None" THEN <<"NoneType", "object">>
    ELSE <<"int", "object">>

\* val.__class__.__name__ == 'VISAObject' or
\* any(base.__name__ == 'VISAObject' for base in val.__class__.mro())
isVISAObject(val) ==
    \/ valueMro(val)[1] = "VISAObject"
    \/ \E i \in 1..Len(valueMro(val)) : valueMro(val)[i] = "VISAObject"

\* jsonpickle.util.is_function(val) and not jsonpickle.util.is_module_function(val)
isLocalFunction(val) == val = "lambda"

underscores == <<"_", "_">>
dilledSuffix == <<"_", "d", "i", "l", "l", "e", "d">>

\* Hashable.__getstate__: the __dict__ without the attributes beginning with __
HashableGetstate(o) ==
    [k \in {key \in DOMAIN o.dict : ~startswith(key, underscores)} |-> o.dict[k]]

\* the hardware test of __getstate__ looking at the class name only
hardwareKeys_nameOnly(state, removed) ==
    {key \in DOMAIN state \ removed : valueMro(state[key])[1] = "VISAObject"}

\* branch 2 of __getstate__: the keys, not explicitly removed, whose value is
\* a VISAObject
hardwareKeys(state, removed) ==
    {key \in DOMAIN state \ removed : isVISAObject(state[key])}

\* JSONpickleable.__getstate__
getstate(o) ==
    LET state == HashableGetstate(o)
        removed == {key \in DOMAIN state : key \in allNotPickled(o.cls)}
        hardware == hardwareKeys(state, removed)
        functions == {key \in DOMAIN state \ (removed \cup hardware) :
                         isLocalFunction(state[key])}
        dilled == {key \o dilledSuffix : key \in functions}
    IN  [k \in ((DOMAIN state \ removed) \ functions) \cup dilled |->
            IF k \in dilled THEN "dill(lambda)"
            ELSE IF k \in hardware THEN "HardwareReference"
            ELSE state[k]]

\* the loop shared by __setstate__ and _fromJSONcheck: a HardwareReference
\* becomes None, a key ending in _dilled is loaded back under its own name
undoPlaceholders(state) ==
    LET isDilled(key) == state[key] # "HardwareReference"
                         /\ lastChars(key, 7) = dilledSuffix
        loaded == {dropLast(key, 7) : key \in {q \in DOMAIN state : isDilled(q)}}
        kept == {key \in DOMAIN state : ~isDilled(key)}
    IN  [k \in kept \cup loaded |->
            IF k \in loaded THEN "lambda"
            ELSE IF state[k] = "HardwareReference" THEN "None"
            ELSE state[k]]

\* for a in names: state[a] = None
setNone(state, names) ==
    [k \in DOMAIN state \cup names |-> IF k \in names THEN "None" ELSE state[k]]

\* JSONpickleable.__setstate__ on a fresh instance of cls; Hashable.__setstate__
\* then updates the empty __dict__ with the state
setstate(cls, state) ==
    setNone(undoPlaceholders(state), notPickled(cls))

\* Hashable._toJSON: the jsonpickle encoding of the class and of __getstate__()
toJSON(o) == [format |-> "json", cls |-> o.cls, state |-> getstate(o)]

\* isinstance(restored_object, cls)
isinstance(objCls, cls) == \E i \in 1..Len(mro(objCls)) : mro(objCls)[i] = cls

\* JSONpickleable._fromJSONcheck(json_string) called on cls
fromJSONcheck(cls, json) ==
    LET restored_object == setstate(json.cls, json.state) IN
    IF ~isinstance(json.cls, cls) /\ json.cls # cls
    THEN [raised |-> "TypeError", result |-> NoObject]
    ELSE [raised |-> NoException,
          result |-> [kind |-> "object", cls |-> json.cls,
                      dict |-> undoPlaceholders(setNone(restored_object, notPickled(cls)))]]

\* JSONpickleable.copy()
copyCall ==
    LET r == fromJSONcheck(obj.cls, toJSON(obj)) IN
    Outcome(fs, fileDirExists, r.result, r.raised)

\* JSONpickleable.save(filename)
saveCall(filename) ==
    Outcome(written(fs, inCwd(jsonfilename(filename)), toJSON(obj)),
            fileDirExists, NoResult, NoException)

\* JSONpickleable.load(filename) called on cls; open() raises FileNotFoundError
loadCall(cls, filename) ==
    LET p == inCwd(jsonfilename(filename)) IN
    IF ~exists(fs, p)
    THEN Outcome(fs, fileDirExists, NoObject, "FileNotFoundError")
    ELSE LET r == fromJSONcheck(cls, fs[p]) IN
         Outcome(fs, fileDirExists, r.result, r.raised)


(***************************************************************************)
(* The persistence calls as actions                                        *)
(***************************************************************************)

\* one call: its outcome becomes the state, and the call is remembered;
\* saveFigure also prints the path of the file
Apply(op, filename, arg, out) ==
    /\ fs' = out.fs
    /\ fileDirExists' = out.fileDirExists
    /\ raised' = out.raised
    /\ last' = [op |-> op, filename |-> filename, arg |-> arg,
                result |-> out.result, raised |-> out.raised]
    /\ restored' = IF op \in {"copy", "load"} THEN out.result ELSE restored
    /\ stdoutLast' = IF op = "saveFigure"
                      THEN printed(stdoutLast, figureLine(pdffilename(filename)))
                      ELSE stdoutLast
    /\ UNCHANGED <<pw, htmlFile, emitted, calls, classes, obj>>

savePickle(filename, dataTuple) ==
    Apply("savePickle", filename, dataTuple, savePickleCall(filename, dataTuple))

loadPickle(filename) ==
    Apply("loadPickle", filename, NoResult, loadPickleCall(filename))

saveFigure(filename, figHandle) ==
    Apply("saveFigure", filename, figHandle, saveFigureCall(filename, figHandle))

savePickleGzip(filename, dataTuple) ==
    Apply("savePickleGzip", filename, dataTuple, savePickleGzipCall(filename, dataTuple))

loadPickleGzip(filename) ==
    Apply("loadPickleGzip", filename, NoResult, loadPickleGzipCall(filename))

saveMat(filename, dataDict) ==
    Apply("saveMat", filename, dataDict, saveMatCall(filename, dataDict))

loadMat(filename) ==
    Apply("loadMat", filename, NoResult, loadMatCall(filename))

\* self.copy() of the live object
copy ==
    /\ obj.kind = "object"
    /\ Apply("copy", <<>>, obj.cls, copyCall)

\* self.save(filename) of the live object
save(filename) ==
    /\ obj.kind = "object"
    /\ Apply("save", filename, obj.cls, saveCall(filename))

load(cls, filename) == Apply("load", filename, cls, loadCall(cls, filename))

(***************************************************************************)
(* Inputs                                                                  *)
(***************************************************************************)

nameA == <<"a">>
nameB == <<"b">>
namePrivate == <<"_", "_", "p">>

\* attribute names; none ends in _dilled, the suffix __getstate__ itself adds
AttrNames == {nameA, nameB, namePrivate}
AttrValues == {"data", "VISAObject", "Keithley", "lambda"}

\* what a class body may say about notPickled
Declarations ==
    {[defines |-> FALSE, names |-> {}]} \cup
    [defines : {TRUE}, names : SUBSET {nameA, nameB}]

ClassTables == [{"A", "B"} -> Declarations]

Objects ==
    [kind : {"object"}, cls : {"A", "B"},
     dict : UNION {[D -> AttrValues] : D \in SUBSET AttrNames}]

\* one object of a fixed class, for the file name conventions
FewClassTables ==
    {[c \in {"A", "B"} |-> IF c = "A" THEN [defines |-> TRUE, names |-> {nameA}]
                           ELSE [defines |-> FALSE, names |-> {}]]}

FewObjects ==
    {[kind |-> "object", cls |-> "A", dict |-> (nameA :> "Keithley") @@ (nameB :> "data")]}

fileA == <<"a">>
Filenames == {fileA, fileA \o dotGz, fileA \o dotMat, fileA \o dotJson}
GzNames == {fileA, fileA \o dotGz}
MatNames == {fileA, fileA \o dotMat, fileA \o dotGz}
JsonNames == {fileA, fileA \o dotJson}
\* savePickle uses the name as given: the name of the gzip file
PickleNames == {fileA \o dotGz}
FigureNames == {fileA, fileA \o dotPdf}
\* figHandle: a figure, or None for plt.gcf()
Figures == {"figure", "gcf"}

DataTuples == {0, 1}

\* a scalar, vectors (one of them empty), matrices with and without a
\* dimension of size one or zero, and a three-dimensional array
Shapes == {<<>>, <<0>>, <<2>>, <<3>>, <<1, 1>>, <<1, 2>>, <<2, 1>>, <<1, 0>>,
           <<2, 2>>, <<2, 3>>, <<2, 1, 2>>}

\* a matrix of the given shape holding first, first+1, ... in row-major order
Matrix(shape, first) ==
    [shape |-> shape, data |-> [i \in 1..prod(shape) |-> first + i - 1]]

Matrices == {Matrix(shape, first) : shape \in Shapes, first \in {0, 5}}

\* names of variables; the last one begins with an underscore
matM == <<"M">>
matV == <<"v">>
matHidden == <<"_", "h">>

DataDicts ==
    [{matM} -> Matrices] \cup
    {(matM :> Matrix(<<2, 2>>, 0)) @@ (matV :> Matrix(<<1, 3>>, 5)),
     (matM :> Matrix(<<2, 3>>, 0)) @@ (matV :> Matrix(<<1, 2>>, 5)) @@
        (matHidden :> Matrix(<<2>>, 5))}

FewDataDicts ==
    {(matM :> Matrix(<<2, 2>>, 0)),
     (matM :> Matrix(<<1, 2>>, 5)) @@ (matV :> Matrix(<<3>>, 0))}

EmptyFs == [p \in {} |-> NoResult]

\* the state before any persistence call: some classes, one live object, no
\* file yet; fileDir may or may not exist
InitIO(tables, objects, dirStates) ==
    /\ pw = NoWriters
    /\ htmlFile = AbsentFile
    /\ stdoutLast = NoLine
    /\ emitted = [name \in Writers |-> NoReports]
    /\ calls = [name \in Writers |-> 0]
    /\ raised = NoException
    /\ fs = EmptyFs
    /\ fileDirExists \in dirStates
    /\ last = NoCall
    /\ classes \in tables
    /\ obj \in objects
    /\ restored = NoObject

InitObj == InitIO(ClassTables, Objects, {TRUE})

NextObj ==
    \/ copy
    \/ \E filename \in JsonNames : save(filename)
    \/ \E cls \in {"A", "B"}, filename \in JsonNames : load(cls, filename)

\* JSONpickleable objects copied, saved and loaded
SpecObj == InitObj /\ [][NextObj]_vars

InitMat == InitIO(FewClassTables, FewObjects, BOOLEAN)

NextMat ==
    \/ \E filename \in MatNames, dataDict \in DataDicts : saveMat(filename, dataDict)
    \/ \E filename \in MatNames : loadMat(filename)
    \/ \E dataTuple \in DataTuples : savePickle(fileA \o dotMat, dataTuple)
    \/ \E figHandle \in Figures : saveFigure(fileA, figHandle)

\* mat files saved and loaded, next to the other writers of fileDir
SpecMat == InitMat /\ [][NextMat]_vars

InitFiles == InitIO(FewClassTables, FewObjects, BOOLEAN)

NextFiles ==
    \/ \E filename \in GzNames, dataTuple \in DataTuples : savePickleGzip(filename, dataTuple)
    \/ \E filename \in GzNames : loadPickleGzip(filename)
    \/ \E filename \in PickleNames, dataTuple \in DataTuples : savePickle(filename, dataTuple)
    \/ \E filename \in PickleNames : loadPickle(filename)
    \/ \E filename \in FigureNames : saveFigure(filename, "figure")
    \/ \E args \in PrintArgs : printWait(args)
    \/ \E args \in PrintArgs : printProgress(args)
    \/ \E filename \in MatNames, dataDict \in FewDataDicts : saveMat(filename, dataDict)
    \/ \E filename \in MatNames : loadMat(filename)
    \/ \E filename \in JsonNames : save(filename)
    \/ \E cls \in {"A", "B"}, filename \in JsonNames : load(cls, filename)

\* the three save/load pairs side by side
SpecFiles == InitFiles /\ [][NextFiles]_vars

\* The state after the first ProgressWriter(name, swpSize, runServer,
\* stdoutPrint) of a session; the monitor file may or may not be there from
\* an earlier one
InitPW ==
    /\ \E swpSize \in SwpSizes, runServer \in BOOLEAN, stdoutPrint \in BOOLEAN,
          before \in {AbsentFile, StaleFile} :
          LET self == ProgressWriter(FirstWriter, swpSize, runServer, stdoutPrint)
              out == initReports(self, before, NoLine) IN
          /\ pw = [NoWriters EXCEPT ![FirstWriter] = self]
          /\ htmlFile = out.html
          /\ stdoutLast = out.line
          /\ emitted = [name \in Writers |->
                          IF name = FirstWriter THEN out.emitted ELSE NoReports]
    /\ calls = [name \in Writers |-> 0]
    /\ raised = NoException
    /\ fs = EmptyFs
    /\ fileDirExists = FALSE
    /\ last = NoCall
    /\ classes = <<>>
    /\ obj = NoObject
    /\ restored = NoObject

\* what goes on around a sweep: another writer is made, and the console is
\* written to by printWait, printProgress and saveFigure
Around ==
    \/ \E name \in Writers, swpSize \in LaterSizes, flags \in LaterFlags :
          init(name, swpSize, flags[1], flags[2])
    \/ \E args \in PrintArgs : printWait(args)
    \/ \E args \in PrintArgs : printProgress(args)
    \/ saveFigure(fileA, "figure")

NextPW ==
    \/ \E steps \in 0..MaxSteps : update(FirstWriter, steps)
    \/ \E name \in Writers \ {FirstWriter} : update(name, 1)
    \/ Around

\* A sweep driven by update(steps) calls with arbitrary steps, next to a
\* later sweep driven by update()
SpecPW == InitPW /\ [][NextPW]_vars

NextDefault ==
    \/ \E name \in Writers : update(name, 1)
    \/ Around

\* Sweeps driven by update() calls with the default steps=1
SpecDefault == InitPW /\ [][NextDefault]_vars

(***************************************************************************)
(* Properties of ProgressWriter                                            *)
(***************************************************************************)

RECURSIVE rowMajor(_, _)
\* the rank of a point in row-major order: the last dimension counts fastest
rowMajor(pnt, size) ==
    IF pnt = <<>> THEN 0
    ELSE Head(pnt) * prod(Tail(size)) + rowMajor(Tail(pnt), Tail(size))

\* the writers that have been constructed
C_Made(name) == pw[name].kind = "ProgressWriter"

\* C1: with the default steps=1, a sweep of N = product of the sizes is not
\* completed after construction nor after each of the first N-1 update()
\* calls, and is completed after the N-th
C1_CompletedAtNthUpdate ==
    \A name \in Writers : C_Made(name) =>
       LET N == prod(pw[name].size) IN
       /\ calls[name] <= N
       /\ calls[name] < N => ~pw[name].completed
       /\ calls[name] = N => pw[name].completed

C1_Witness ==
    /\ pw[FirstWriter].size = <<2, 3>>
    /\ calls[FirstWriter] = 6
    /\ pw[FirstWriter].completed

\* C2: update() on a completed writer raises, changes neither currentPnt,
\* ofTotal nor completed, and emits nothing; no other call changes the writer
C2_CompletedUpdateRaises ==
    [][\A name \in Writers : (C_Made(name) /\ pw[name].completed) =>
         /\ pw'[name] = pw[name]
         /\ (last'.op = "update" /\ last'.arg = name) =>
               /\ raised' = "Exception"
               /\ last'.raised = "Exception"
               /\ pw' = pw
               /\ htmlFile' = htmlFile
               /\ stdoutLast' = stdoutLast
               /\ emitted' = emitted]_vars

C2_Witness ==
    /\ pw[FirstWriter].completed
    /\ last.op = "update" /\ last.arg = FirstWriter
    /\ raised = "Exception"
    /\ pw[FirstWriter].serving /\ pw[FirstWriter].printing

\* C8: currentPnt is within the sizes and is the row-major representation of
\* ofTotal modulo totalSize; it is all zeros when ofTotal reaches totalSize
C8_MixedRadix ==
    \A name \in Writers : C_Made(name) =>
       LET self == pw[name] IN
       /\ Len(self.currentPnt) = Len(self.size)
       /\ \A i \in 1..Len(self.size) :
             0 <= self.currentPnt[i] /\ self.currentPnt[i] < self.size[i]
       /\ rowMajor(self.currentPnt, self.size) = self.ofTotal % prod(self.size)
       /\ self.ofTotal = self.totalSize =>
             \A i \in 1..Len(self.size) : self.currentPnt[i] = 0

C8_Witness ==
    /\ pw[FirstWriter].size = <<2, 3>>
    /\ pw[FirstWriter].currentPnt = <<1, 0>>
    /\ pw[FirstWriter].ofTotal = 3

\* C9: ofTotal never exceeds totalSize, and completed holds exactly when
\* ofTotal equals totalSize
C9_OfTotalBounded ==
    \A name \in Writers : C_Made(name) =>
       /\ pw[name].ofTotal <= pw[name].totalSize
       /\ pw[name].completed <=> pw[name].ofTotal = pw[name].totalSize

\* C10: over the lifetime of every writer, an update that returns without
\* completing emits a progress report (the page replaces the shared file
\* when serving, the line is printed on the console, after whatever was left
\* open on it, when printing), the completing update emits the completion
\* report instead, that report is emitted once and the writer emits nothing
\* after it; the constructor and the updates of a writer that is not serving
\* leave the html file alone
C10_Returned(name) == calls'[name] = calls[name] + 1

\* the console after one more print: the piece ends the line it is on, which
\* begins with what was left open
C10_Printed(before, after, kind, body) ==
    LET n == Len(after.line) IN
    /\ ~after.open
    /\ n >= 1
    /\ after.line[n].kind = kind
    /\ after.line[n].body = body
    /\ SubSeq(after.line, 1, n - 1) = IF before.open THEN before.line ELSE <<>>

C10_Step(name) ==
    /\ (C10_Returned(name) /\ ~pw'[name].completed) =>
          /\ IF pw[name].serving
             THEN /\ emitted'[name].htmlProgress = emitted[name].htmlProgress + 1
                  /\ htmlFile'.kind = "progress"
                  /\ htmlFile'.name = name
                  /\ htmlFile'.body = progressBody(pw'[name])
             ELSE /\ emitted'[name].htmlProgress = emitted[name].htmlProgress
                  /\ htmlFile' = htmlFile
          /\ IF pw[name].printing
             THEN /\ emitted'[name].stdioProgress = emitted[name].stdioProgress + 1
                  /\ C10_Printed(stdoutLast, stdoutLast', "progress",
                                 progressBody(pw'[name]))
             ELSE /\ emitted'[name].stdioProgress = emitted[name].stdioProgress
                  /\ stdoutLast' = stdoutLast
          /\ emitted'[name].htmlEnd = emitted[name].htmlEnd
          /\ emitted'[name].stdioEnd = emitted[name].stdioEnd
    /\ (C10_Returned(name) /\ pw'[name].completed) =>
          /\ IF pw[name].serving
             THEN /\ emitted'[name].htmlEnd = emitted[name].htmlEnd + 1
                  /\ htmlFile'.kind = "completed"
                  /\ htmlFile'.name = name
             ELSE /\ emitted'[name].htmlEnd = emitted[name].htmlEnd
                  /\ htmlFile' = htmlFile
          /\ IF pw[name].printing
             THEN /\ emitted'[name].stdioEnd = emitted[name].stdioEnd + 1
                  /\ C10_Printed(stdoutLast, stdoutLast', "completed", <<>>)
             ELSE /\ emitted'[name].stdioEnd = emitted[name].stdioEnd
                  /\ stdoutLast' = stdoutLast
          /\ emitted'[name].htmlProgress = emitted[name].htmlProgress
          /\ emitted'[name].stdioProgress = emitted[name].stdioProgress
    /\ (C_Made(name) /\ pw[name].completed) => emitted'[name] = emitted[name]
    /\ (~C_Made(name) /\ pw'[name].kind = "ProgressWriter" /\ ~pw'[name].serving) =>
          /\ htmlFile' = htmlFile
          /\ emitted'[name].htmlProgress = 0

C10_State ==
    /\ \A name \in Writers : C_Made(name) =>
          /\ emitted[name].htmlEnd = IF pw[name].completed /\ pw[name].serving THEN 1 ELSE 0
          /\ emitted[name].stdioEnd = IF pw[name].completed /\ pw[name].printing THEN 1 ELSE 0
          /\ ~pw[name].serving => emitted[name].htmlProgress = 0
    /\ (\A name \in Writers : C_Made(name) => ~pw[name].serving) =>
          htmlFile \in {AbsentFile, StaleFile}

C10_Reports == []C10_State /\ [][\A name \in Writers : C10_Step(name)]_vars

C10_Witness ==
    /\ pw[FirstWriter].completed /\ pw[FirstWriter].serving /\ pw[FirstWriter].printing
    /\ calls[FirstWriter] >= 3
    /\ emitted[FirstWriter].htmlEnd = 1 /\ emitted[FirstWriter].stdioEnd = 1
    /\ emitted[FirstWriter].htmlProgress = calls[FirstWriter]
    /\ emitted[FirstWriter].stdioProgress = calls[FirstWriter]
    /\ htmlFile.kind = "progress" /\ htmlFile.name # FirstWriter
    /\ Len(stdoutLast.line) >= 2

(***************************************************************************)
(* Properties of the persistence functions and of JSONpickleable           *)
(***************************************************************************)

\* the names listed in notPickled by the class or by any class of its MRO
C3_Listed(cls) == UNION {declared(mro(cls)[i]).names : i \in 1..Len(mro(cls))}

\* C3: every name listed in notPickled, by the class or by a class of its
\* MRO, is absent from the state of __getstate__ and exists with value None
\* on every instance restored by copy or load
C3_NotPickledAbsentThenNone ==
    /\ \A name \in C3_Listed(obj.cls) : name \notin DOMAIN getstate(obj)
    /\ restored.kind = "object" =>
          \A name \in C3_Listed(restored.cls) :
             /\ name \in DOMAIN restored.dict
             /\ restored.dict[name] = "None"

\* C4: loadMat of a name with no file at fileDir/name(.mat) raises
\* FileNotFoundError and creates neither the file nor the directory
C4_Path(filename) ==
    inFileDir(IF endswith(filename, dotMat) THEN filename ELSE filename \o dotMat)

C4_LoadMatNotFound ==
    [][(last'.op = "loadMat" /\ C4_Path(last'.filename) \notin DOMAIN fs) =>
          /\ last'.raised = "FileNotFoundError"
          /\ raised' = "FileNotFoundError"
          /\ fs' = fs
          /\ fileDirExists' = fileDirExists]_vars

C4_Witness ==
    /\ last.op = "loadMat"
    /\ last.filename = fileA
    /\ last.raised = "FileNotFoundError"
    /\ DOMAIN fs = {inFileDir(fileA \o dotGz \o dotMat)}

\* C5 as stated: loadMat after saveMat returns the same keys and the same
\* matrices, shapes included
C5_PerfectInverse ==
    last.op = "saveMat" => loadMatCall(last.filename).result = last.arg

\* C5 amended: loadMat after saveMat returns, for every name of dataDict that
\* does not begin with an underscore, the same elements in the same order
\* with the dimensions of size one removed from the shape (so the same shape
\* when no dimension is one), an empty one-dimensional array coming back as
\* an empty 0x0 matrix; the names that begin with an underscore are not
\* returned, and besides the others only __header__, __version__ and
\* __globals__ are
C5_Squeezed(shape) ==
    IF shape = <<0>> THEN <<0, 0>> ELSE SelectSeq(shape, LAMBDA d : d = 0 \/ d > 1)

C5_Stored(dataDict) == {name \in DOMAIN dataDict : Head(name) # "_"}

C5_InverseUpToSqueeze ==
    last.op = "saveMat" =>
       LET out == loadMatCall(last.filename) IN
       /\ out.raised = NoException
       /\ DOMAIN out.result = C5_Stored(last.arg) \cup {matHeader, matVersion, matGlobals}
       /\ \A k \in C5_Stored(last.arg) :
             /\ out.result[k].data = last.arg[k].data
             /\ out.result[k].shape = C5_Squeezed(last.arg[k].shape)
             /\ (\A i \in 1..Len(last.arg[k].shape) : last.arg[k].shape[i] > 1)
                   => out.result[k].shape = last.arg[k].shape

C5_Witness ==
    /\ last.op = "loadMat"
    /\ last.raised = NoException
    /\ fs[C4_Path(last.filename)].variables[matM].dims = <<2, 3>>
    /\ fs[C4_Path(last.filename)].variables[matM].column = <<0, 3, 1, 4, 2, 5>>
    /\ fs[C4_Path(last.filename)].variables[matV].dims = <<1, 2>>
    /\ matHidden \notin DOMAIN last.result
    /\ last.result[matM] = Matrix(<<2, 3>>, 0)
    /\ last.result[matV] = Matrix(<<2>>, 5)

C6_Hardware == {"VISAObject", "Keithley"}

\* C6 as stated: every attribute holding a VISAObject is a HardwareReference
\* in the serialized state and None in the restored object, which never
\* holds a HardwareReference nor a VISAObject
C6_AllHardwareReplaced ==
    (last.op \in {"copy", "load"} /\ restored.kind = "object") =>
       /\ \A key \in DOMAIN obj.dict : obj.dict[key] \in C6_Hardware =>
             /\ key \in DOMAIN getstate(obj)
             /\ getstate(obj)[key] = "HardwareReference"
             /\ key \in DOMAIN restored.dict
             /\ restored.dict[key] = "None"
       /\ \A key \in DOMAIN restored.dict :
             restored.dict[key] \notin C6_Hardware \cup {"HardwareReference"}

\* C6 amended: an attribute holding a VISAObject whose name is neither listed
\* in notPickled (of the class or of its MRO) nor begins with __ is a
\* HardwareReference in the serialized state and None in the restored
\* object; one whose name is listed or begins with __ is not in the
\* serialized state at all; the restored object never holds a
\* HardwareReference nor a VISAObject
C6_Dropped(key) == key \in C3_Listed(obj.cls) \/ startswith(key, underscores)

C6_HardwareThrownOut ==
    /\ \A key \in DOMAIN obj.dict : obj.dict[key] \in C6_Hardware =>
          IF C6_Dropped(key)
          THEN key \notin DOMAIN getstate(obj)
          ELSE /\ key \in DOMAIN getstate(obj)
               /\ getstate(obj)[key] = "HardwareReference"
               /\ restored.kind = "object" =>
                     key \in DOMAIN restored.dict /\ restored.dict[key] = "None"
    /\ restored.kind = "object" =>
          \A key \in DOMAIN restored.dict :
             restored.dict[key] \notin C6_Hardware \cup {"HardwareReference"}

C6_Witness ==
    /\ last.op = "copy"
    /\ obj.cls = "B"
    /\ classes["A"].names = {nameA}
    /\ classes["B"] = [defines |-> FALSE, names |-> {}]
    /\ obj.dict = (nameA :> "VISAObject") @@ (nameB :> "Keithley") @@ (namePrivate :> "Keithley")
    /\ getstate(obj)[nameB] = "HardwareReference"
    /\ restored.kind = "object"
    /\ restored.dict[nameB] = "None"

\* C7: each extension rule is idempotent, and a save of a file name makes the
\* matching load of that name, given with or without the extension, find the
\* file that save wrote and return what it holds
C7_Spellings(filename, extension) ==
    IF endswith(filename, extension)
    THEN {filename, dropLast(filename, Len(extension))}
    ELSE {filename, filename \o extension}

C7_Normal(filename, extension) ==
    IF endswith(filename, extension) THEN filename ELSE filename \o extension

C7_SameFile ==
    /\ \A f \in Filenames :
          /\ gzfilename(gzfilename(f)) = gzfilename(f)
          /\ matfilename(matfilename(f)) = matfilename(f)
          /\ jsonfilename(jsonfilename(f)) = jsonfilename(f)
    /\ last.op = "savePickleGzip" =>
          /\ inFileDir(C7_Normal(last.filename, dotGz)) \in DOMAIN fs
          /\ \A f \in C7_Spellings(last.filename, dotGz) :
                /\ loadPickleGzipCall(f).raised = NoException
                /\ loadPickleGzipCall(f).result = last.arg
    /\ last.op = "savePickle" =>
          /\ inFileDir(last.filename) \in DOMAIN fs
          /\ loadPickleCall(last.filename).raised = NoException
          /\ loadPickleCall(last.filename).result = last.arg
    /\ last.op = "saveMat" =>
          /\ inFileDir(C7_Normal(last.filename, dotMat)) \in DOMAIN fs
          /\ \A f \in C7_Spellings(last.filename, dotMat) :
                /\ loadMatCall(f).raised = NoException
                /\ \A k \in DOMAIN last.arg :
                      loadMatCall(f).result[k].data = last.arg[k].data
    /\ last.op = "save" =>
          /\ inCwd(C7_Normal(last.filename, dotJson)) \in DOMAIN fs
          /\ \A f \in C7_Spellings(last.filename, dotJson) :
                /\ loadCall(last.arg, f).raised = NoException
                /\ loadCall(last.arg, f).result = copyCall.result
    /\ (last.op = "loadPickleGzip" /\ last.raised = "FileNotFoundError") =>
          inFileDir(C7_Normal(last.filename, dotGz)) \notin DOMAIN fs
    /\ (last.op = "loadPickle" /\ last.raised = "FileNotFoundError") =>
          inFileDir(last.filename) \notin DOMAIN fs
    /\ (last.op = "loadMat" /\ last.raised = "FileNotFoundError") =>
          inFileDir(C7_Normal(last.filename, dotMat)) \notin DOMAIN fs
    /\ (last.op = "load" /\ last.raised = "FileNotFoundError") =>
          inCwd(C7_Normal(last.filename, dotJson)) \notin DOMAIN fs

C7_Witness ==
    /\ last.op = "loadPickleGzip"
    /\ last.filename = fileA
    /\ last.raised = NoException
    /\ last.result = 1
    /\ DOMAIN fs = {inFileDir(fileA \o dotGz)}

====
